---- MODULE Spec2Model ----
(***************************************************************************)
(* Model of src/utils/EventDispatcher.js: the on / off / trigger mixin,    *)
(* makeEventDispatcher and markDeprecated.                                 *)
(*                                                                         *)
(* A JavaScript string is a sequence of one-character strings, so that     *)
(* String.split(/\s+/) and splitNs are computed character by character.    *)
(* Objects carry their own properties; a property read goes through the    *)
(* prototype chain, a property assignment creates an own property.         *)
(***************************************************************************)
EXTENDS Integers, Sequences, FiniteSets, TLC

VARIABLES
    installed,            \* obj -> the object has own on/off/trigger/_EventDispatcher
    hasEventHandlers,     \* obj -> the object has an own _eventHandlers property
    eventHandlers,        \* obj -> its own _eventHandlers: eventName -> array of records
    hasDeprecatedEvents,  \* obj -> the object has an own _deprecatedEvents property
    deprecatedEvents,     \* obj -> its own _deprecatedEvents: eventName -> info
    stack,                \* activations of trigger(), innermost last
    calls,                \* handler invocations made since the last top-level call
    errors,               \* console.error reports since the last top-level call
    warnings,             \* console.warn reports since the last top-level call
    call,                 \* the last top-level call and its arguments
    result,               \* how that call completed
    pre,                  \* the tables as they were when that call was made
    undo                  \* on() calls of a round trip whose off() is still to come

vars == <<installed, hasEventHandlers, eventHandlers, hasDeprecatedEvents,
          deprecatedEvents, stack, calls, errors, warnings, call, result, pre,
          undo>>

----------------------------------------------------------------------------
(* Bounds of the model *)

\* most handler records held by one object's table
MaxEntries == 3

\* most activations of trigger() at one time: the outer one and those that
\* handlers start
MaxDepth == 2

\* most handler invocations logged for one top-level call when handlers call
\* trigger()
MaxCalls == 2

\* most handler records of the host in the runs where handlers call trigger()
MaxNested == 2

\* most console.error reports logged for one top-level call at the time a
\* handler calls trigger()
MaxReports == 1

----------------------------------------------------------------------------
(* JavaScript values *)

\* the value undefined, where a function is expected
Undefined == "undefined"

\* an absent .ns property, and an absent / empty insteadStr: namespaces
\* produced by splitNs always start with "." and are never empty
NoStr == <<>>

\* two listener functions, compared by identity
Handlers == {"h1", "h2"}

\* values passed as fn: a function, or undefined (fn omitted; not callable)
FnValues == Handlers \cup {Undefined}

\* the host object A, a second instance B, and their shared prototype P
Objects == {"A", "B", "P"}

NoObject == "none"

\* [[Prototype]] of each object; P's prototype has none of the properties used here
Proto(o) == IF o \in {"A", "B"} THEN "P" ELSE NoObject

\* A string is the sequence of its UTF-16 code units. A code unit up to U+007F
\* is written as the character itself, any other as "U+" followed by its four
\* hexadecimal digits.

\* the 25 code units the class \s of a regular expression matches: space, tab,
\* line feed, carriage return, form feed, vertical tab (U+000B, written as the
\* character), no-break space, ogham space mark, U+2000 - U+200A, line and
\* paragraph separator, narrow no-break space, medium mathematical space,
\* ideographic space and U+FEFF
Whitespace ==
    {" ", "\t", "\n", "\r", "\f", "", "U+00A0", "U+1680",
     "U+2000", "U+2001", "U+2002", "U+2003", "U+2004", "U+2005", "U+2006",
     "U+2007", "U+2008", "U+2009", "U+200A", "U+2028", "U+2029", "U+202F",
     "U+205F", "U+3000", "U+FEFF"}

IsWhitespace(c) == c \in Whitespace

----------------------------------------------------------------------------
(* String.prototype.split(/\s+/) and splitNs *)

\* the suffix of s after its leading run of whitespace
RECURSIVE SkipWs(_)
SkipWs(s) ==
    IF s # <<>> /\ IsWhitespace(Head(s)) THEN SkipWs(Tail(s)) ELSE s

\* split(/\s+/): cur is the token being read, acc the tokens read so far
RECURSIVE SplitFrom(_, _, _)
SplitFrom(s, cur, acc) ==
    IF s = <<>> THEN Append(acc, cur)
    ELSE IF IsWhitespace(Head(s)) THEN SplitFrom(SkipWs(s), <<>>, Append(acc, cur))
    ELSE SplitFrom(Tail(s), Append(cur, Head(s)), acc)

split(events) == SplitFrom(events, <<>>, <<>>)

\* eventStr.indexOf("."), 0-based; -1 when there is no dot
RECURSIVE IndexOfDotFrom(_, _)
IndexOfDotFrom(s, k) ==
    IF k > Len(s) THEN -1
    ELSE IF s[k] = "." THEN k - 1
    ELSE IndexOfDotFrom(s, k + 1)

indexOfDot(eventStr) == IndexOfDotFrom(eventStr, 1)

\* eventStr.substring(from, to), 0-based, to exclusive
substring(eventStr, from, to) == SubSeq(eventStr, from + 1, to)

splitNs(eventStr) ==
    LET dot == indexOfDot(eventStr) IN
    IF dot = -1
    THEN [eventName |-> eventStr, ns |-> NoStr]
    ELSE [eventName |-> substring(eventStr, 0, dot),
          ns        |-> substring(eventStr, dot, Len(eventStr))]

\* events.split(/\s+/).map(splitNs)
eventsList(events) ==
    LET toks == split(events) IN [i \in 1..Len(toks) |-> splitNs(toks[i])]

\* JavaScript truthiness of a string
Truthy(s) == s # <<>>

----------------------------------------------------------------------------
(* Property lookup *)

\* the object whose own _eventHandlers the read this._eventHandlers yields
HandlersOwner(has, this) ==
    IF has[this] THEN this
    ELSE IF Proto(this) # NoObject /\ has[Proto(this)] THEN Proto(this)
    ELSE NoObject

\* the object whose own _deprecatedEvents the read obj._deprecatedEvents yields
DeprecatedOwner(has, obj) ==
    IF has[obj] THEN obj
    ELSE IF Proto(obj) # NoObject /\ has[Proto(obj)] THEN Proto(obj)
    ELSE NoObject

\* the object has on/off/trigger, own or inherited
HasMethods(o) ==
    installed[o] \/ (Proto(o) # NoObject /\ installed[Proto(o)])

\* {} : a table with no key
EmptyTable == [k \in {} |-> <<>>]

\* the name __proto__
ProtoName == <<"_", "_", "p", "r", "o", "t", "o", "_", "_">>

\* what every {} inherits from Object.prototype: the name of each property
\* and the .length of its value. The methods are functions, whose length is
\* their number of parameters; the value of __proto__ is Object.prototype
\* itself, which has no length: the loops over it (k = NaN, i < undefined)
\* make no pass, as over length 0. No value has a property of index 0, 1, ...
\* or a push or splice method.
ObjectPrototype ==
    (  <<"c", "o", "n", "s", "t", "r", "u", "c", "t", "o", "r">> :> 1
    @@ <<"h", "a", "s", "O", "w", "n", "P", "r", "o", "p", "e", "r", "t", "y">> :> 1
    @@ <<"i", "s", "P", "r", "o", "t", "o", "t", "y", "p", "e", "O", "f">> :> 1
    @@ <<"p", "r", "o", "p", "e", "r", "t", "y", "I", "s", "E", "n", "u", "m", "e", "r", "a", "b", "l", "e">> :> 1
    @@ <<"t", "o", "L", "o", "c", "a", "l", "e", "S", "t", "r", "i", "n", "g">> :> 0
    @@ <<"t", "o", "S", "t", "r", "i", "n", "g">> :> 0
    @@ <<"v", "a", "l", "u", "e", "O", "f">> :> 0
    @@ <<"_", "_", "d", "e", "f", "i", "n", "e", "G", "e", "t", "t", "e", "r", "_", "_">> :> 2
    @@ <<"_", "_", "d", "e", "f", "i", "n", "e", "S", "e", "t", "t", "e", "r", "_", "_">> :> 2
    @@ <<"_", "_", "l", "o", "o", "k", "u", "p", "G", "e", "t", "t", "e", "r", "_", "_">> :> 1
    @@ <<"_", "_", "l", "o", "o", "k", "u", "p", "S", "e", "t", "t", "e", "r", "_", "_">> :> 1
    @@ ProtoName :> 0 )

\* table[name] yields a value that the table inherits
Inherits(tbl, name) == name \notin DOMAIN tbl /\ name \in DOMAIN ObjectPrototype

\* number of handler records in a table
RECURSIVE SumLen(_, _)
SumLen(tbl, keys) ==
    IF keys = {} THEN 0
    ELSE LET k == CHOOSE x \in keys : TRUE
         IN Len(tbl[k]) + SumLen(tbl, keys \ {k})

TableSize(tbl) == SumLen(tbl, DOMAIN tbl)

----------------------------------------------------------------------------
(* on *)

\* the handler record on() stores: the parsed clause with .handler set
HandlerRecord(eventRec, fn) ==
    [eventName |-> eventRec.eventName, ns |-> eventRec.ns, handler |-> fn]

\* console.warn calls of on(), one per clause for whose event name the read
\* this._deprecatedEvents[eventName] yields a truthy value: the entry of a
\* marked event, or a value the table inherits, which is not a string
RECURSIVE onWarningsFrom(_, _, _)
onWarningsFrom(dep, evl, i) ==
    IF i > Len(evl) THEN <<>>
    ELSE LET eventName == evl[i].eventName
             rest == onWarningsFrom(dep, evl, i + 1)
         IN IF eventName \in DOMAIN dep
            THEN <<[eventName |-> eventName,
                    useInstead |-> dep[eventName].isString,
                    instead |-> dep[eventName].str]>> \o rest
            ELSE IF Inherits(dep, eventName)
            THEN <<[eventName |-> eventName,
                    useInstead |-> FALSE,
                    instead |-> NoStr]>> \o rest
            ELSE rest

onWarnings(this, evl) ==
    LET owner == DeprecatedOwner(hasDeprecatedEvents, this) IN
    IF owner = NoObject THEN <<>>
    ELSE onWarningsFrom(deprecatedEvents[owner], evl, 1)

\* an attach pass that keeps a new table on the prototype that has the methods
attachOneOnPrototype(H, this, eventRec, fn) ==
    LET found == HandlersOwner(H.has, this)
        owner == IF found # NoObject THEN found
                 ELSE IF Proto(this) # NoObject THEN Proto(this) ELSE this
        has1  == [H.has EXCEPT ![owner] = TRUE]
        t0    == IF found = NoObject THEN EmptyTable ELSE H.tbl[owner]
        eventName == eventRec.eventName
        old   == IF eventName \in DOMAIN t0 THEN t0[eventName] ELSE <<>>
        t1    == [k \in DOMAIN t0 \cup {eventName} |->
                     IF k = eventName
                     THEN Append(old, HandlerRecord(eventRec, fn))
                     ELSE t0[k]]
    IN IF Inherits(t0, eventName)
       THEN [has |-> has1, tbl |-> [H.tbl EXCEPT ![owner] = t0], threw |-> TRUE]
       ELSE [has |-> has1, tbl |-> [H.tbl EXCEPT ![owner] = t1], threw |-> FALSE]

\* one pass of the attach loop: H.has and H.tbl are the _eventHandlers of all
\* objects. The table is created if `this` reads none; a name the table
\* inherits reads as truthy, no array is stored, and the call of .push on the
\* inherited value throws a TypeError
attachOne(H, this, eventRec, fn) ==
    LET found == HandlersOwner(H.has, this)
        owner == IF found = NoObject THEN this ELSE found
        has1  == [H.has EXCEPT ![owner] = TRUE]
        t0    == IF found = NoObject THEN EmptyTable ELSE H.tbl[owner]
        eventName == eventRec.eventName
        old   == IF eventName \in DOMAIN t0 THEN t0[eventName] ELSE <<>>
        t1    == [k \in DOMAIN t0 \cup {eventName} |->
                     IF k = eventName
                     THEN Append(old, HandlerRecord(eventRec, fn))
                     ELSE t0[k]]
    IN IF Inherits(t0, eventName)
       THEN [has |-> has1, tbl |-> [H.tbl EXCEPT ![owner] = t0], threw |-> TRUE]
       ELSE [has |-> has1, tbl |-> [H.tbl EXCEPT ![owner] = t1], threw |-> FALSE]

\* the attach loop from clause i on; an exception ends it
RECURSIVE attachFrom(_, _, _, _, _)
attachFrom(H, this, evl, fn, i) ==
    IF i > Len(evl) \/ H.threw THEN H
    ELSE attachFrom(attachOne(H, this, evl[i], fn), this, evl, fn, i + 1)

\* the attach loop of on(): the tables it leaves, and whether it threw
attach(H, this, evl, fn) ==
    attachFrom([has |-> H.has, tbl |-> H.tbl, threw |-> FALSE], this, evl, fn, 1)

----------------------------------------------------------------------------
(* off *)

\* removal that fills the hole with the last element instead of shifting
spliceSwapLast(handlerList, k) ==
    IF k = Len(handlerList) THEN SubSeq(handlerList, 1, k - 1)
    ELSE SubSeq(handlerList, 1, k - 1) \o <<handlerList[Len(handlerList)]>>
             \o SubSeq(handlerList, k + 1, Len(handlerList) - 1)

\* handlerList.splice(k, 1), k 1-based
splice(handlerList, k) ==
    SubSeq(handlerList, 1, k - 1) \o SubSeq(handlerList, k + 1, Len(handlerList))

\* the test of removeAllMatches on one record: ns and fn only
matchesNsFn(eventRec, rec, fn) ==
    /\ (~Truthy(eventRec.ns) \/ eventRec.ns = rec.ns)
    /\ (fn = Undefined \/ fn = rec.handler)

\* the backwards walk of removeAllMatches, from index k (1-based) down
RECURSIVE walkBack(_, _, _, _)
walkBack(handlerList, eventRec, fn, k) ==
    IF k < 1 THEN handlerList
    ELSE IF matchesNsFn(eventRec, handlerList[k], fn)
         THEN walkBack(splice(handlerList, k), eventRec, fn, k - 1)
         ELSE walkBack(handlerList, eventRec, fn, k - 1)

\* removeAllMatches without the delete of a key whose array has become empty
removeAllMatchesKeepKey(tbl, eventRec, eventName, fn) ==
    IF eventName \notin DOMAIN tbl
    THEN [tbl |-> tbl,
          threw |-> Inherits(tbl, eventName) /\ ObjectPrototype[eventName] > 0]
    ELSE [tbl |-> [tbl EXCEPT ![eventName] = walkBack(tbl[eventName], eventRec, fn,
                                                      Len(tbl[eventName]))],
          threw |-> FALSE]

\* removeAllMatches: the table it leaves, and whether it threw. A name that is
\* no key of the table and that the table does not inherit reads as undefined:
\* return. A name the table inherits reads as a value that is not an array:
\* with length 1 or more the first pass of the loop throws a TypeError
\* (handlerList[k] is undefined, and there is no splice), with length 0 there
\* is no pass and delete finds no key of that name.
removeAllMatches(tbl, eventRec, eventName, fn) ==
    IF eventName \notin DOMAIN tbl
    THEN [tbl |-> tbl,
          threw |-> Inherits(tbl, eventName) /\ ObjectPrototype[eventName] > 0]
    ELSE LET handlerList == walkBack(tbl[eventName], eventRec, fn, Len(tbl[eventName]))
         IN [tbl |-> IF Len(handlerList) = 0
                     THEN [k \in DOMAIN tbl \ {eventName} |-> tbl[k]]
                     ELSE [tbl EXCEPT ![eventName] = handlerList],
             threw |-> FALSE]

\* _.forEach(this._eventHandlers, ...) over the keys the table had at the
\* start, which are its own keys: each holds an array
RECURSIVE forEachKey(_, _, _, _)
forEachKey(tbl, keys, eventRec, fn) ==
    IF keys = {} THEN tbl
    ELSE LET eventName == CHOOSE x \in keys : TRUE
         IN forEachKey(removeAllMatches(tbl, eventRec, eventName, fn).tbl,
                       keys \ {eventName}, eventRec, fn)

\* a faulty doRemove, for C5: a clause that gives only a namespace is skipped
doRemoveNamedOnly(tbl, eventRec, fn) ==
    IF Truthy(eventRec.eventName)
    THEN removeAllMatches(tbl, eventRec, eventRec.eventName, fn)
    ELSE [tbl |-> tbl, threw |-> FALSE]

\* doRemove: the table it leaves, and whether it threw
doRemove(tbl, eventRec, fn) ==
    IF Truthy(eventRec.eventName)
    THEN removeAllMatches(tbl, eventRec, eventRec.eventName, fn)
    ELSE [tbl |-> forEachKey(tbl, DOMAIN tbl, eventRec, fn), threw |-> FALSE]

\* the detach loop from clause i on; an exception ends it
RECURSIVE detachFrom(_, _, _, _)
detachFrom(tbl, evl, fn, i) ==
    IF i > Len(evl) THEN [tbl |-> tbl, threw |-> FALSE]
    ELSE LET D == doRemove(tbl, evl[i], fn)
         IN IF D.threw THEN D ELSE detachFrom(D.tbl, evl, fn, i + 1)

\* a detach loop that handles the first clause only
detachFirstOnly(tbl, evl, fn) == doRemove(tbl, evl[1], fn)

\* the detach loop of off(): the table it leaves, and whether it threw
detach(tbl, evl, fn) == detachFrom(tbl, evl, fn, 1)

----------------------------------------------------------------------------
(* Inputs *)

\* what a handler throws: an Error object (any value that has properties), or
\* null / undefined
ErrorObject == "Error"
NullValue == "null"
ThrownValues == {ErrorObject, NullValue}

\* the object the calls are made on
Hosts == {"A"}

\* a string argument, and an argument that is not a string (a number)
Str(chars) == [isString |-> TRUE, chars |-> chars]
NotAString == [isString |-> FALSE, chars |-> <<>>]

\* specifications given to on(): "a", "a.m", and, with one handler only,
\* "a.m b.n" (an ideographic space, U+3000, between the clauses), ".m", "",
\* "constructor"
OnSpecs == { <<"a">>, <<"a", ".", "m">> }
OnSpecsOneHandler ==
    { <<"a", ".", "m", "U+3000", "b", ".", "n">>, <<".", "m">>, <<>>,
      <<"c", "o", "n", "s", "t", "r", "u", "c", "t", "o", "r">> }

\* the calls of on(): (events, fn)
OnCalls ==
    ({Str(s) : s \in OnSpecs} \X Handlers)
    \cup ({Str(s) : s \in OnSpecsOneHandler} \X {"h1"})
    \cup {<<Str(<<"a">>), Undefined>>, <<NotAString, "h1">>}

\* specifications given to off() with and without fn: "a", "a.m", ".m",
\* "a.m b.n" (a tab and an em space, U+2003, between the clauses)
OffSpecs ==
    { <<"a">>, <<"a", ".", "m">>, <<".", "m">>,
      <<"a", ".", "m", "\t", "U+2003", "b", ".", "n">> }

\* specifications given to off() without fn only: "b", ".n", " a", "",
\* "constructor", "constructor a"
OffSpecsNoHandler ==
    { <<"b">>, <<".", "n">>, <<" ", "a">>, <<>>,
      <<"c", "o", "n", "s", "t", "r", "u", "c", "t", "o", "r">>,
      <<"c", "o", "n", "s", "t", "r", "u", "c", "t", "o", "r", " ", "a">> }

\* the calls of off(): (events, fn)
OffCalls ==
    ({Str(s) : s \in OffSpecs} \X {Undefined, "h1"})
    \cup ({Str(s) : s \in OffSpecsNoHandler} \X {Undefined})
    \cup {<<NotAString, Undefined>>}

\* "a", "b", "", "a.m", "constructor"
TriggerNames ==
    { <<"a">>, <<"b">>, <<>>, <<"a", ".", "m">>,
      <<"c", "o", "n", "s", "t", "r", "u", "c", "t", "o", "r">> }

\* the extra arguments of trigger()
TriggerArgs == { <<>>, <<"x", "y">> }

\* the calls of trigger(): (eventName, args); "a" with and without extra
\* arguments, the other names without
TriggerCalls ==
    ({<<"a">>} \X TriggerArgs) \cup ((TriggerNames \ {<<"a">>}) \X {<<>>})

\* "a"
DeprecatedNames == { <<"a">> }

\* insteadStr: omitted, or "b"
InsteadStrs == { NoStr, <<"b">> }

NoCall == [op |-> "none", this |-> NoObject, events |-> Str(<<>>), fn |-> Undefined,
           args |-> <<>>, instead |-> NoStr]

Snapshot == [installed |-> installed,
             hasEventHandlers |-> hasEventHandlers, eventHandlers |-> eventHandlers,
             hasDeprecatedEvents |-> hasDeprecatedEvents,
             deprecatedEvents |-> deprecatedEvents]

\* a call made by outside code, not by a handler that trigger() is running
TopLevel(this) == stack = <<>> /\ HasMethods(this)

----------------------------------------------------------------------------
(* Operations *)

Init ==
    /\ installed = [o \in Objects |-> FALSE]
    /\ hasEventHandlers = [o \in Objects |-> FALSE]
    /\ eventHandlers = [o \in Objects |-> EmptyTable]
    /\ hasDeprecatedEvents = [o \in Objects |-> FALSE]
    /\ deprecatedEvents = [o \in Objects |-> EmptyTable]
    /\ stack = <<>>
    /\ calls = <<>>
    /\ errors = <<>>
    /\ warnings = <<>>
    /\ call = NoCall
    /\ result = Undefined
    /\ pre = [installed |-> [o \in Objects |-> FALSE],
              hasEventHandlers |-> [o \in Objects |-> FALSE],
              eventHandlers |-> [o \in Objects |-> EmptyTable],
              hasDeprecatedEvents |-> [o \in Objects |-> FALSE],
              deprecatedEvents |-> [o \in Objects |-> EmptyTable]]
    /\ undo = <<>>

makeEventDispatcher(obj) ==
    /\ stack = <<>>
    /\ installed' = [installed EXCEPT ![obj] = TRUE]
    /\ call' = [NoCall EXCEPT !.op = "makeEventDispatcher", !.this = obj]
    /\ result' = Undefined
    /\ pre' = Snapshot
    /\ calls' = <<>> /\ errors' = <<>> /\ warnings' = <<>>
    /\ UNCHANGED <<hasEventHandlers, eventHandlers, hasDeprecatedEvents,
                   deprecatedEvents, stack>>

\* markDeprecated that gives obj a new table at every call
markDeprecatedFreshTable(obj, eventName, insteadStr) ==
    LET info  == IF Truthy(insteadStr)
                 THEN [isString |-> TRUE, str |-> insteadStr]
                 ELSE [isString |-> FALSE, str |-> NoStr]
        d1    == [k \in {eventName} |-> info]
    IN
    /\ stack = <<>>
    /\ hasDeprecatedEvents' = [hasDeprecatedEvents EXCEPT ![obj] = TRUE]
    /\ deprecatedEvents' = [deprecatedEvents EXCEPT ![obj] = d1]
    /\ call' = [NoCall EXCEPT !.op = "markDeprecated", !.this = obj,
                              !.events = Str(eventName), !.instead = insteadStr]
    /\ result' = Undefined
    /\ pre' = Snapshot
    /\ calls' = <<>> /\ errors' = <<>> /\ warnings' = <<>>
    /\ UNCHANGED <<installed, hasEventHandlers, eventHandlers, stack>>

markDeprecated(obj, eventName, insteadStr) ==
    LET found == DeprecatedOwner(hasDeprecatedEvents, obj)
        owner == IF found = NoObject THEN obj ELSE found
        d0    == IF found = NoObject THEN EmptyTable ELSE deprecatedEvents[owner]
        info  == IF Truthy(insteadStr)
                 THEN [isString |-> TRUE, str |-> insteadStr]
                 ELSE [isString |-> FALSE, str |-> NoStr]
        d1    == IF eventName = ProtoName
                 THEN \* the setter of __proto__ ignores a string and true
                      d0
                 ELSE [k \in DOMAIN d0 \cup {eventName} |->
                          IF k = eventName THEN info ELSE d0[k]]
    IN
    /\ stack = <<>>
    /\ hasDeprecatedEvents' = [hasDeprecatedEvents EXCEPT ![owner] = TRUE]
    /\ deprecatedEvents' = [deprecatedEvents EXCEPT ![owner] = d1]
    /\ call' = [NoCall EXCEPT !.op = "markDeprecated", !.this = obj,
                              !.events = Str(eventName), !.instead = insteadStr]
    /\ result' = Undefined
    /\ pre' = Snapshot
    /\ calls' = <<>> /\ errors' = <<>> /\ warnings' = <<>>
    /\ UNCHANGED <<installed, hasEventHandlers, eventHandlers, stack>>

\* the number of records the table of `this` holds after on(events, fn): no
\* record is added when events is not a string, and none for a clause whose
\* name the table inherits nor for the clauses after it
SizeAfterOn(this, events) ==
    LET H == IF events.isString
             THEN attach([has |-> hasEventHandlers, tbl |-> eventHandlers], this,
                         eventsList(events.chars), Undefined)
             ELSE [has |-> hasEventHandlers, tbl |-> eventHandlers]
        owner == HandlersOwner(H.has, this)
    IN IF owner = NoObject THEN 0 ELSE TableSize(H.tbl[owner])

on(this, events, fn) ==
    /\ TopLevel(this)
    /\ call' = [NoCall EXCEPT !.op = "on", !.this = this, !.events = events, !.fn = fn]
    /\ pre' = Snapshot
    /\ calls' = <<>> /\ errors' = <<>>
    /\ IF ~events.isString
       THEN \* events.split is not a function
            /\ result' = "TypeError"
            /\ warnings' = <<>>
            /\ UNCHANGED <<hasEventHandlers, eventHandlers>>
       ELSE LET evl == eventsList(events.chars)
                H == attach([has |-> hasEventHandlers, tbl |-> eventHandlers],
                            this, evl, fn)
            IN /\ SizeAfterOn(this, events) <= MaxEntries
               /\ warnings' = onWarnings(this, evl)
               /\ hasEventHandlers' = H.has
               /\ eventHandlers' = H.tbl
               /\ result' = IF H.threw THEN "TypeError" ELSE this
    /\ UNCHANGED <<installed, hasDeprecatedEvents, deprecatedEvents, stack>>

\* activations that walk an array off() has emptied and unlinked from the table
unlink(stk, owner, gone) ==
    [j \in 1..Len(stk) |->
        IF stk[j].owner = owner /\ stk[j].eventName \in gone
        THEN [stk[j] EXCEPT !.detached = TRUE]
        ELSE stk[j]]

off(this, events, fn) ==
    /\ TopLevel(this)
    /\ call' = [NoCall EXCEPT !.op = "off", !.this = this, !.events = events, !.fn = fn]
    /\ pre' = Snapshot
    /\ calls' = <<>> /\ errors' = <<>> /\ warnings' = <<>>
    /\ IF ~events.isString
       THEN \* events.split is not a function
            /\ result' = "TypeError"
            /\ UNCHANGED <<eventHandlers, stack>>
       ELSE LET evl == eventsList(events.chars)
                owner == HandlersOwner(hasEventHandlers, this)
            IN IF owner = NoObject
               THEN /\ result' = Undefined
                    /\ UNCHANGED <<eventHandlers, stack>>
               ELSE LET D == detach(eventHandlers[owner], evl, fn)
                    IN /\ eventHandlers' = [eventHandlers EXCEPT ![owner] = D.tbl]
                       /\ stack' = unlink(stack, owner,
                                          DOMAIN eventHandlers[owner] \ DOMAIN D.tbl)
                       /\ result' = IF D.threw THEN "TypeError" ELSE this
    /\ UNCHANGED <<installed, hasEventHandlers, hasDeprecatedEvents, deprecatedEvents>>

\* applyArgs.unshift(event)
unshift(applyArgs, event) == <<event>> \o applyArgs

\* the array an activation of trigger() walks
handlerListOf(frame) ==
    IF frame.detached THEN <<>> ELSE eventHandlers[frame.owner][frame.eventName]

Top == stack[Len(stack)]

Pop == SubSeq(stack, 1, Len(stack) - 1)

\* the console.error reports of the loop of trigger() over a value the table
\* inherits: each of its `length` passes reads handlerList[i], which is
\* undefined, and the TypeError of reading its .handler is caught and reported;
\* no handler is invoked
inheritedReports(this, eventName) ==
    [k \in 1..ObjectPrototype[eventName] |->
        [eventName |-> eventName, this |-> this, handler |-> Undefined]]

\* trigger() up to the loop: no handler list, or the loop starts at i = 0; over
\* a value the table inherits the whole loop runs here, since it calls no handler
trigger(this, eventName, args) ==
    LET owner == HandlersOwner(hasEventHandlers, this)
        event == [type |-> eventName, target |-> this]
        applyArgs == unshift(args, event)
    IN
    /\ TopLevel(this)
    /\ call' = [NoCall EXCEPT !.op = "trigger", !.this = this,
                              !.events = Str(eventName), !.args = args]
    /\ pre' = Snapshot
    /\ calls' = <<>> /\ warnings' = <<>>
    /\ IF owner = NoObject
       THEN /\ result' = Undefined
            /\ errors' = <<>>
            /\ UNCHANGED stack
       ELSE IF eventName \notin DOMAIN eventHandlers[owner]
       THEN /\ result' = Undefined
            /\ errors' = IF Inherits(eventHandlers[owner], eventName)
                          THEN inheritedReports(this, eventName)
                          ELSE <<>>
            /\ UNCHANGED stack
       ELSE /\ result' = "pending"
            /\ errors' = <<>>
            /\ stack' = Append(stack, [this |-> this, owner |-> owner,
                                       eventName |-> eventName, applyArgs |-> applyArgs,
                                       i |-> 0, inHandler |-> FALSE, detached |-> FALSE])
    /\ UNCHANGED <<installed, hasEventHandlers, eventHandlers, hasDeprecatedEvents,
                   deprecatedEvents>>

\* handlerList[i].handler.apply(null, applyArgs) is evaluated
callHandler ==
    /\ stack # <<>>
    /\ ~Top.inHandler
    /\ Top.i < Len(handlerListOf(Top))
    /\ calls' = Append(calls, [rec |-> handlerListOf(Top)[Top.i + 1],
                               applyArgs |-> Top.applyArgs,
                               outcome |-> "running"])
    /\ stack' = [stack EXCEPT ![Len(stack)].inHandler = TRUE]
    /\ UNCHANGED <<installed, hasEventHandlers, eventHandlers, hasDeprecatedEvents,
                   deprecatedEvents, errors, warnings, call, result, pre>>

\* the invocation in progress: the last one that has not completed
Running == CHOOSE n \in 1..Len(calls) :
               /\ calls[n].outcome = "running"
               /\ \A m \in (n + 1)..Len(calls) : calls[m].outcome # "running"

\* the handler returns: the loop moves to i + 1
handlerReturns ==
    /\ stack # <<>>
    /\ Top.inHandler
    /\ calls[Running].rec.handler \in Handlers
    /\ calls' = [calls EXCEPT ![Running].outcome = "returned"]
    /\ stack' = [stack EXCEPT ![Len(stack)].inHandler = FALSE,
                              ![Len(stack)].i = @ + 1]
    /\ UNCHANGED <<installed, hasEventHandlers, eventHandlers, hasDeprecatedEvents,
                   deprecatedEvents, errors, warnings, call, result, pre>>

\* the handler throws err, or is not a function (a TypeError): the catch clause
\* reports it through console.error and the loop moves to i + 1; evaluating
\* err.stack for the report throws a TypeError when err is null or undefined,
\* and that exception leaves trigger()
handlerThrows(err) ==
    /\ stack # <<>>
    /\ Top.inHandler
    /\ calls[Running].rec.handler \in Handlers \/ err = ErrorObject
    /\ calls' = [calls EXCEPT ![Running].outcome = "threw"]
    /\ IF err = ErrorObject
       THEN /\ errors' = Append(errors, [eventName |-> Top.eventName, this |-> Top.this,
                                         handler |-> calls[Running].rec.handler])
            /\ stack' = [stack EXCEPT ![Len(stack)].inHandler = FALSE,
                                      ![Len(stack)].i = @ + 1]
            /\ UNCHANGED result
       ELSE /\ stack' = Pop
            /\ result' = IF Len(stack) = 1 THEN "TypeError" ELSE result
            /\ UNCHANGED errors
    /\ UNCHANGED <<installed, hasEventHandlers, eventHandlers, hasDeprecatedEvents,
                   deprecatedEvents, warnings, call, pre>>

\* the loop condition i < handlerList.length fails: trigger() returns
triggerReturns ==
    /\ stack # <<>>
    /\ ~Top.inHandler
    /\ Top.i >= Len(handlerListOf(Top))
    /\ stack' = Pop
    /\ result' = IF Len(stack) = 1 THEN Undefined ELSE result
    /\ UNCHANGED <<installed, hasEventHandlers, eventHandlers, hasDeprecatedEvents,
                   deprecatedEvents, calls, errors, warnings, call, pre>>

\* a call that belongs to no round trip of on() and off()
Plain(A) == A /\ UNCHANGED undo

Next ==
    \/ \E obj \in Hosts : Plain(makeEventDispatcher(obj))
    \/ \E obj \in Hosts, eventName \in DeprecatedNames, insteadStr \in InsteadStrs :
           Plain(markDeprecated(obj, eventName, insteadStr))
    \/ \E this \in Hosts, c \in OnCalls : Plain(on(this, c[1], c[2]))
    \/ \E this \in Hosts, c \in OffCalls : Plain(off(this, c[1], c[2]))
    \/ \E this \in Hosts, c \in TriggerCalls : Plain(trigger(this, c[1], c[2]))
    \/ Plain(callHandler)
    \/ Plain(handlerReturns)
    \/ \E err \in ThrownValues : Plain(handlerThrows(err))
    \/ Plain(triggerReturns)

Spec == Init /\ [][Next]_vars

----------------------------------------------------------------------------
(* Round trips: on() calls, each taken back by off() with the same arguments *)

\* on(c) opens a round trip, or opens one inside those still open
onOfRoundTrip(this, c) ==
    /\ Len(undo) < MaxEntries
    /\ on(this, c[1], c[2])
    /\ undo' = Append(undo, c)

\* off() with the arguments of the last on() that has not been taken back
offOfRoundTrip(this) ==
    /\ undo # <<>>
    /\ off(this, undo[Len(undo)][1], undo[Len(undo)][2])
    /\ undo' = SubSeq(undo, 1, Len(undo) - 1)

NextRoundTrip ==
    \/ \E obj \in Hosts : Plain(makeEventDispatcher(obj))
    \/ \E this \in Hosts, c \in OnCalls : onOfRoundTrip(this, c)
    \/ \E this \in Hosts : offOfRoundTrip(this)

SpecRoundTrip == Init /\ [][NextRoundTrip]_vars

----------------------------------------------------------------------------
(* One makeEventDispatcher() on a prototype, on / off / trigger on its instances *)

Prototype == "P"

Instances == {"A", "B"}

\* the one listener each instance registers, so that a record shows the
\* instance it was registered through
ListenerOf(o) == IF o = "A" THEN "h1" ELSE "h2"

\* specifications the instances give to on(): "a", "a.m"
InstanceOnSpecs == { Str(<<"a">>), Str(<<"a", ".", "m">>) }

\* specifications the instances give to off(): "a", ".m"
InstanceOffSpecs == { Str(<<"a">>), Str(<<".", "m">>) }

NextShared ==
    \/ Plain(makeEventDispatcher(Prototype))
    \/ \E this \in Instances, events \in InstanceOnSpecs :
           Plain(on(this, events, ListenerOf(this)))
    \/ \E this \in Instances, events \in InstanceOffSpecs :
           Plain(off(this, events, Undefined))
    \/ \E this \in Instances : Plain(trigger(this, <<"a">>, <<>>))
    \/ Plain(callHandler)
    \/ Plain(handlerReturns)
    \/ \E err \in ThrownValues : Plain(handlerThrows(err))
    \/ Plain(triggerReturns)

SpecShared == Init /\ [][NextShared]_vars

----------------------------------------------------------------------------
(* Marks on an object and on its prototype, on / off / trigger on the object *)

\* the objects given to markDeprecated(): the host and its prototype
MarkObjects == {"A", "P"}

\* the marks: "a" without and with a replacement, "b" without
MarkCalls ==
    ({<<"a">>} \X InsteadStrs) \cup {<< <<"b">>, NoStr >>}

\* on("a", h1), and on("a.m constructor b", h2), which throws at its second clause
MarkOnCalls ==
    { <<Str(<<"a">>), "h1">>,
      <<Str(<<"a", ".", "m", " ", "c", "o", "n", "s", "t", "r", "u", "c", "t", "o", "r", " ", "b">>), "h2">> }

\* off("a"), and off(".m constructor a"), which throws at its second clause
MarkOffCalls ==
    { <<Str(<<"a">>), Undefined>>,
      <<Str(<<".", "m", " ", "c", "o", "n", "s", "t", "r", "u", "c", "t", "o", "r", " ", "a">>), Undefined>> }

NextMarks ==
    \/ \E obj \in Hosts : Plain(makeEventDispatcher(obj))
    \/ \E obj \in MarkObjects, c \in MarkCalls : Plain(markDeprecated(obj, c[1], c[2]))
    \/ \E this \in Hosts, c \in MarkOnCalls : Plain(on(this, c[1], c[2]))
    \/ \E this \in Hosts, c \in MarkOffCalls : Plain(off(this, c[1], c[2]))
    \/ \E this \in Hosts : Plain(trigger(this, <<"a">>, <<>>))
    \/ Plain(callHandler)
    \/ Plain(handlerReturns)
    \/ \E err \in ThrownValues : Plain(handlerThrows(err))
    \/ Plain(triggerReturns)

SpecMarks == Init /\ [][NextMarks]_vars

----------------------------------------------------------------------------
(* Calls a running handler makes on event.target, the host of the dispatch *)

\* a handler of the program is running: the record being invoked holds a function
HandlerRunning ==
    /\ stack # <<>>
    /\ Top.inHandler
    /\ calls[Running].rec.handler \in Handlers

\* the handler that trigger() is running calls on(events, fn); when events is
\* not a string, events.split throws and nothing is changed
nestedOn(events, fn) ==
    LET this == Top.this
        evl == eventsList(events.chars)
        H == attach([has |-> hasEventHandlers, tbl |-> eventHandlers], this, evl, fn)
    IN
    /\ HandlerRunning
    /\ SizeAfterOn(this, events) <= MaxEntries
    /\ IF ~events.isString
       THEN UNCHANGED <<warnings, hasEventHandlers, eventHandlers>>
       ELSE /\ warnings' = warnings \o onWarnings(this, evl)
            /\ hasEventHandlers' = H.has
            /\ eventHandlers' = H.tbl
    /\ UNCHANGED <<installed, hasDeprecatedEvents, deprecatedEvents, stack, calls,
                   errors, call, result, pre>>

\* the handler that trigger() is running calls off(events, fn): a sequence it
\* empties is unlinked from the table, and the activations that walk it see an
\* empty array; when events is not a string, events.split throws and nothing
\* is changed
nestedOff(events, fn) ==
    LET this == Top.this
        evl == eventsList(events.chars)
        owner == HandlersOwner(hasEventHandlers, this)
        tbl == detach(eventHandlers[owner], evl, fn).tbl
    IN
    /\ HandlerRunning
    /\ owner # NoObject
    /\ IF ~events.isString
       THEN UNCHANGED <<eventHandlers, stack>>
       ELSE /\ eventHandlers' = [eventHandlers EXCEPT ![owner] = tbl]
            /\ stack' = unlink(stack, owner, DOMAIN eventHandlers[owner] \ DOMAIN tbl)
    /\ UNCHANGED <<installed, hasEventHandlers, hasDeprecatedEvents, deprecatedEvents,
                   calls, errors, warnings, call, result, pre>>

\* the handler that trigger() is running calls trigger(eventName, args)
nestedTrigger(eventName, args) ==
    LET this == Top.this
        owner == HandlersOwner(hasEventHandlers, this)
        event == [type |-> eventName, target |-> this]
        applyArgs == unshift(args, event)
    IN
    /\ HandlerRunning
    /\ Len(stack) < MaxDepth
    /\ Len(calls) < MaxCalls
    /\ Len(errors) < MaxReports
    /\ IF owner = NoObject
       THEN UNCHANGED <<stack, errors>>
       ELSE IF eventName \notin DOMAIN eventHandlers[owner]
       THEN /\ errors' = IF Inherits(eventHandlers[owner], eventName)
                          THEN errors \o inheritedReports(this, eventName)
                          ELSE errors
            /\ UNCHANGED stack
       ELSE /\ stack' = Append(stack, [this |-> this, owner |-> owner,
                                       eventName |-> eventName, applyArgs |-> applyArgs,
                                       i |-> 0, inHandler |-> FALSE, detached |-> FALSE])
            /\ UNCHANGED errors
    /\ UNCHANGED <<installed, hasEventHandlers, eventHandlers, hasDeprecatedEvents,
                   deprecatedEvents, calls, warnings, call, result, pre>>

\* on() calls of the specifications with handlers that call back: "a" with h1,
\* "a.m" with h2, "b" with h1, "b constructor a" with h2, and 3 (not a string)
\* with h1
ReentrantOnCalls ==
    { <<Str(<<"a">>), "h1">>, <<Str(<<"a", ".", "m">>), "h2">>, <<Str(<<"b">>), "h1">>,
      <<Str(<<"b", " ", "c", "o", "n", "s", "t", "r", "u", "c", "t", "o", "r", " ", "a">>), "h2">>,
      <<NotAString, "h1">> }

\* off() calls of those specifications: off("a", h1), off(".m"), off("a"),
\* off("b constructor a") and off(3)
ReentrantOffCalls ==
    { <<Str(<<"a">>), "h1">>, <<Str(<<".", "m">>), Undefined>>,
      <<Str(<<"a">>), Undefined>>,
      <<Str(<<"b", " ", "c", "o", "n", "s", "t", "r", "u", "c", "t", "o", "r", " ", "a">>), Undefined>>,
      <<NotAString, Undefined>> }

\* events triggered in those specifications
ReentrantTriggerNames == { <<"a">>, <<"b">> }

\* the calls made from outside a dispatch, and the steps of a dispatch
NextOutside ==
    \/ \E obj \in Hosts : Plain(makeEventDispatcher(obj))
    \/ \E this \in Hosts, c \in ReentrantOnCalls : Plain(on(this, c[1], c[2]))
    \/ \E this \in Hosts, c \in ReentrantOffCalls : Plain(off(this, c[1], c[2]))
    \/ \E this \in Hosts, eventName \in ReentrantTriggerNames :
           Plain(trigger(this, eventName, <<>>))
    \/ Plain(callHandler)
    \/ Plain(handlerReturns)
    \/ \E err \in ThrownValues : Plain(handlerThrows(err))
    \/ Plain(triggerReturns)

\* handlers call off() only
NextNestedOff ==
    \/ NextOutside
    \/ \E c \in ReentrantOffCalls : Plain(nestedOff(c[1], c[2]))

SpecNestedOff == Init /\ [][NextNestedOff]_vars

\* handlers call on() and off(), and do not call trigger()
NextNestedOnOff ==
    \/ NextOutside
    \/ \E c \in ReentrantOnCalls : Plain(nestedOn(c[1], c[2]))
    \/ \E c \in ReentrantOffCalls : Plain(nestedOff(c[1], c[2]))

SpecNestedOnOff == Init /\ [][NextNestedOnOff]_vars

\* specifications a handler gives to on() where handlers call trigger() too:
\* "a.m", "a.m constructor"
ReentrantNestedOnSpecs ==
    { Str(<<"a", ".", "m">>), Str(<<"a", ".", "m", " ", "c", "o", "n", "s", "t", "r", "u", "c", "t", "o", "r">>) }

\* handlers call on(), off() and trigger(): on("a", h1) and on("a.m", h2) from
\* outside, on("a.m", h2), on("a.m constructor", h2), off("a", h1), trigger("a")
\* and trigger("constructor") from handlers
NextReentrant ==
    \/ \E obj \in Hosts : Plain(makeEventDispatcher(obj))
    \/ \E this \in Hosts :
           /\ SizeAfterOn(this, Str(<<"a">>)) <= MaxNested
           /\ Plain(on(this, Str(<<"a">>), "h1"))
    \/ \E this \in Hosts :
           /\ SizeAfterOn(this, Str(<<"a", ".", "m">>)) <= MaxNested
           /\ Plain(on(this, Str(<<"a", ".", "m">>), "h2"))
    \/ \E this \in Hosts : Plain(off(this, Str(<<"a">>), Undefined))
    \/ \E this \in Hosts : Plain(trigger(this, <<"a">>, <<>>))
    \/ Plain(callHandler)
    \/ Plain(handlerReturns)
    \/ \E err \in ThrownValues : Plain(handlerThrows(err))
    \/ Plain(triggerReturns)
    \/ \E events \in ReentrantNestedOnSpecs :
           /\ stack # <<>>
           /\ SizeAfterOn(Top.this, events) <= MaxNested
           /\ Plain(nestedOn(events, "h2"))
    \/ Plain(nestedOff(Str(<<"a">>), "h1"))
    \/ Plain(nestedTrigger(<<"a">>, <<>>))
    \/ Plain(nestedTrigger(<<"c", "o", "n", "s", "t", "r", "u", "c", "t", "o", "r">>, <<>>))

SpecReentrant == Init /\ [][NextReentrant]_vars

----------------------------------------------------------------------------
(* Vocabulary of the properties *)

\* the table a call on o reads, and the one it read when the last call was made
HostTable(o) ==
    LET owner == HandlersOwner(hasEventHandlers, o)
    IN IF owner = NoObject THEN EmptyTable ELSE eventHandlers[owner]

PreTable(o) ==
    LET owner == HandlersOwner(pre.hasEventHandlers, o)
    IN IF owner = NoObject THEN EmptyTable ELSE pre.eventHandlers[owner]

\* the handler sequence of an event: an absent key is the empty sequence
Lst(tbl, e) == IF e \in DOMAIN tbl THEN tbl[e] ELSE <<>>

Keys(t1, t2) == DOMAIN t1 \cup DOMAIN t2

\* the tables are as they were when the last call was made
TablesUnchanged ==
    /\ hasEventHandlers = pre.hasEventHandlers
    /\ eventHandlers = pre.eventHandlers
    /\ hasDeprecatedEvents = pre.hasDeprecatedEvents
    /\ deprecatedEvents = pre.deprecatedEvents

\* the last call was op, with a string as its first argument
Called(op) == call.op = op /\ call.events.isString

\* the last call was trigger() and it has come to its end
Dispatched == call.op = "trigger" /\ stack = <<>>

\* the tokens of the last call's specification string
Tokens == eventsList(call.events.chars)

\* a token of off(spec, fn) selects the record: its event name if it has one,
\* its namespace if it has one, and fn if supplied
TokenSelects(tok, fn, rec) ==
    /\ (tok.eventName = <<>> \/ tok.eventName = rec.eventName)
    /\ (tok.ns = NoStr \/ tok.ns = rec.ns)
    /\ (fn = Undefined \/ fn = rec.handler)

Selected(toks, fn, rec) ==
    \E i \in 1..Len(toks) : TokenSelects(toks[i], fn, rec)

\* the records of seq whose handler is h
CountOf(seq, h) == Cardinality({n \in 1..Len(seq) : seq[n].handler = h})

----------------------------------------------------------------------------
(* C1 - C3: dispatch *)

\* C1: a dispatch that has ended returned normally to its caller, invoked every
\* record of the event's sequence, those after a throwing one included, and
\* reported each handler failure exactly once, in order, to console.error.
C1_FailureIsolated ==
    Dispatched =>
        LET list == Lst(HostTable(call.this), call.events.chars)
            threw(c) == c.outcome = "threw"
            failed == SelectSeq(calls, threw)
        IN /\ result = Undefined
           /\ Len(calls) = Len(list)
           /\ \A n \in 1..Len(list) : calls[n].rec = list[n]
           /\ Len(errors) = Len(failed)
           /\ \A n \in 1..Len(failed) :
                  errors[n] = [eventName |-> call.events.chars, this |-> call.this,
                               handler |-> failed[n].rec.handler]

\* C2: a dispatch that has ended invoked exactly the records of the event's
\* sequence, each once, in sequence order, each with {type, target} followed by
\* the extra arguments in the order given; and on() appends at the end of a
\* sequence, so that sequence order is registration order.
C2_DispatchOrderAndArity ==
    /\ Dispatched =>
           LET list == Lst(HostTable(call.this), call.events.chars)
               event == [type |-> call.events.chars, target |-> call.this]
           IN /\ Len(calls) = Len(list)
              /\ \A n \in 1..Len(list) :
                     /\ calls[n].rec = list[n]
                     /\ calls[n].applyArgs = <<event>> \o call.args
    /\ (Called("on") /\ result = call.this) =>
           \A e \in Keys(PreTable(call.this), HostTable(call.this)) :
               LET old == Lst(PreTable(call.this), e)
                   new == Lst(HostTable(call.this), e)
               IN Len(old) <= Len(new) /\ SubSeq(new, 1, Len(old)) = old

\* C3: on(spec, h) adds one record per token, whatever is registered already;
\* a dispatch that has ended invoked h as many times as the event's sequence
\* holds it; one off(e, h) leaves no record of h under e.
C3_DuplicateAccounting ==
    /\ (Called("on") /\ result = call.this) =>
           \A e \in Keys(PreTable(call.this), HostTable(call.this)) :
               CountOf(Lst(HostTable(call.this), e), call.fn)
                   = CountOf(Lst(PreTable(call.this), e), call.fn)
                     + Cardinality({i \in 1..Len(Tokens) : Tokens[i].eventName = e})
    /\ Dispatched =>
           \A h \in FnValues :
               Cardinality({n \in 1..Len(calls) : calls[n].rec.handler = h})
                   = CountOf(Lst(HostTable(call.this), call.events.chars), h)
    /\ (Called("off") /\ call.fn \in Handlers /\ Len(Tokens) = 1
            /\ Tokens[1].eventName # <<>> /\ Tokens[1].ns = NoStr) =>
           CountOf(Lst(HostTable(call.this), Tokens[1].eventName), call.fn) = 0

----------------------------------------------------------------------------
(* C4 - C8: off *)

\* C4: after off(spec, fn), each event's sequence is its sequence before the
\* call without the records some token of spec selects (event name if the token
\* has one, namespace if it has one, fn if supplied): those are removed, every
\* other record stays.
C4_ExactRemovalSet ==
    Called("off") =>
        \A e \in Keys(PreTable(call.this), HostTable(call.this)) :
            LET kept(rec) == ~Selected(Tokens, call.fn, rec)
            IN Lst(HostTable(call.this), e) = SelectSeq(Lst(PreTable(call.this), e), kept)

\* C5: after off(".ns") with no fn, each event's sequence is its sequence
\* before the call without the records whose namespace is ".ns"; records with
\* another namespace or none stay, under every event name.
C5_BareNamespaceRemoval ==
    (Called("off") /\ call.fn = Undefined /\ Len(Tokens) = 1
         /\ Tokens[1].eventName = <<>> /\ Tokens[1].ns # NoStr) =>
        \A e \in Keys(PreTable(call.this), HostTable(call.this)) :
            LET other(rec) == rec.ns # Tokens[1].ns
            IN Lst(HostTable(call.this), e) = SelectSeq(Lst(PreTable(call.this), e), other)

\* off(".m") after on("a.m b.n", h1): "a" has no record left, "b" still has h1
C5_Witness ==
    /\ Called("off") /\ call.fn = Undefined /\ call.events.chars = <<".", "m">>
    /\ <<"a">> \in DOMAIN PreTable(call.this)
    /\ <<"a">> \notin DOMAIN HostTable(call.this)
    /\ <<"b">> \in DOMAIN HostTable(call.this)
    /\ HostTable(call.this)[<<"b">>]
           = <<[eventName |-> <<"b">>, ns |-> <<".", "n">>, handler |-> "h1"]>>

\* C6: off(spec) removes no record of an event that no token of spec names,
\* unless a token of spec is a bare namespace equal to the record's namespace.
C6_OffFrame ==
    Called("off") =>
        \A e \in DOMAIN PreTable(call.this) :
            (\A i \in 1..Len(Tokens) : Tokens[i].eventName # e) =>
                LET safe(rec) == \A i \in 1..Len(Tokens) :
                                     ~(Tokens[i].eventName = <<>> /\ Tokens[i].ns # NoStr
                                          /\ Tokens[i].ns = rec.ns)
                IN SelectSeq(Lst(HostTable(call.this), e), safe)
                       = SelectSeq(PreTable(call.this)[e], safe)

\* C7: off(spec, fn) returns the host object in every host state.
C7_OffReturnsHost ==
    Called("off") => result = call.this

\* C8: trigger(e) of an event with no record, and off(spec, fn) whose tokens
\* select no record, raise nothing, invoke no handler, report nothing, and
\* leave the handler tables and the deprecation tables as they were.
C8_SilentNoOps ==
    LET idle == /\ stack = <<>>
                /\ result # "TypeError"
                /\ calls = <<>>
                /\ errors = <<>>
                /\ TablesUnchanged
    IN /\ (call.op = "trigger" /\ Lst(PreTable(call.this), call.events.chars) = <<>>)
              => idle
       /\ (Called("off")
              /\ \A e \in DOMAIN PreTable(call.this) :
                     \A n \in 1..Len(PreTable(call.this)[e]) :
                         ~Selected(Tokens, call.fn, PreTable(call.this)[e][n]))
              => idle

----------------------------------------------------------------------------
(* C9 - C10: argument validation of on *)

\* C9: on(spec, fn) with spec empty or not a string, or fn not callable, fails
\* with an exception and leaves the handler tables as they were.
C9_OnRejectsInvalidArguments ==
    (call.op = "on"
        /\ (~call.events.isString \/ call.events.chars = <<>> \/ call.fn \notin Handlers))
        => (result = "TypeError" /\ TablesUnchanged)

\* C10: no handler table has the empty string as a key.
C10_NoEmptyEventName ==
    \A o \in Objects : <<>> \notin DOMAIN eventHandlers[o]

----------------------------------------------------------------------------
(* C11 - C12: deprecation marks *)

\* the deprecation table obj._deprecatedEvents read when the last call was made
PreDeprecated(o) ==
    LET owner == DeprecatedOwner(pre.hasDeprecatedEvents, o)
    IN IF owner = NoObject THEN EmptyTable ELSE pre.deprecatedEvents[owner]

\* the deprecation table obj._deprecatedEvents reads now
HostDeprecated(o) ==
    LET owner == DeprecatedOwner(hasDeprecatedEvents, o)
    IN IF owner = NoObject THEN EmptyTable ELSE deprecatedEvents[owner]

\* the records on(spec, fn) is to add under event e: one per token naming e
Registered(toks, fn, e) ==
    LET names(tok) == tok.eventName = e
        mine == SelectSeq(toks, names)
    IN [n \in 1..Len(mine) |->
           [eventName |-> e, ns |-> mine[n].ns, handler |-> fn]]

\* C11: on(spec, h) reports one warning per token whose event name is marked
\* deprecated, naming that event and the replacement given with the mark, and
\* none for a token whose event name is not marked; marked or not, an on()
\* that returns has appended one record per token to the event's sequence, and
\* a dispatch of a marked event that returns normally has invoked the records
\* of that sequence.
C11_DeprecationAdvisory ==
    /\ Called("on") =>
           LET dep == PreDeprecated(call.this)
               marked(tok) == tok.eventName \in DOMAIN dep
               reported == SelectSeq(Tokens, marked)
           IN /\ Len(warnings) = Len(reported)
              /\ \A n \in 1..Len(reported) :
                     /\ warnings[n].eventName = reported[n].eventName
                     /\ warnings[n].useInstead = dep[reported[n].eventName].isString
                     /\ warnings[n].instead = dep[reported[n].eventName].str
    /\ (Called("on") /\ result = call.this) =>
           \A e \in Keys(PreTable(call.this), HostTable(call.this)) :
               Lst(HostTable(call.this), e)
                   = Lst(PreTable(call.this), e) \o Registered(Tokens, call.fn, e)
    /\ (Dispatched /\ result = Undefined
            /\ call.events.chars \in DOMAIN HostDeprecated(call.this)) =>
           LET list == Lst(HostTable(call.this), call.events.chars)
           IN /\ Len(calls) = Len(list)
              /\ \A n \in 1..Len(list) : calls[n].rec = list[n]

\* the least member of a set of positions, 0 when there is none
FirstOf(S) == IF S = {} THEN 0 ELSE CHOOSE i \in S : \A k \in S : i <= k

\* the clause at which the last on() threw, 0 when it threw at none: the first
\* one whose event name the handler table inherits
OnThrowsAt ==
    FirstOf({i \in 1..Len(Tokens) :
                Inherits(PreTable(call.this), Tokens[i].eventName)})

\* the clause at which the last off() threw, 0 when it threw at none: the first
\* one whose event name the handler table inherits with a positive length;
\* off() reads no clause when the host has no handler table
OffThrowsAt ==
    IF HandlersOwner(pre.hasEventHandlers, call.this) = NoObject THEN 0
    ELSE FirstOf({i \in 1..Len(Tokens) :
                     /\ Inherits(PreTable(call.this), Tokens[i].eventName)
                     /\ ObjectPrototype[Tokens[i].eventName] > 0})

\* the clauses a call that threw at clause `at` has carried out
Before(at) == IF at = 0 THEN Tokens ELSE SubSeq(Tokens, 1, at - 1)


----------------------------------------------------------------------------
(* C16: order of the records off() leaves *)

\* some strictly increasing choice of positions of long yields short
IsSubsequence(short, long) ==
    \E pos \in [1..Len(short) -> 1..Len(long)] :
        /\ \A n \in 1..Len(short) : long[pos[n]] = short[n]
        /\ \A m, n \in 1..Len(short) : m < n => pos[m] < pos[n]

\* C16: the records off() leaves in an event's sequence stand in the order
\* they had before the call, and on() adds records at the end only, so the
\* order of the records left is the order of their registration.
C16_StableRemoval ==
    /\ Called("off") =>
           \A e \in DOMAIN HostTable(call.this) :
               IsSubsequence(HostTable(call.this)[e], Lst(PreTable(call.this), e))
    /\ (Called("on") /\ result = call.this) =>
           \A e \in DOMAIN PreTable(call.this) :
               LET old == PreTable(call.this)[e]
                   new == Lst(HostTable(call.this), e)
               IN Len(old) <= Len(new) /\ SubSeq(new, 1, Len(old)) = old

\* off() removed the first of three records and left two different records
C16_Witness ==
    /\ Called("off")
    /\ \E e \in DOMAIN HostTable(call.this) :
           /\ e \in DOMAIN PreTable(call.this)
           /\ Len(PreTable(call.this)[e]) = 3
           /\ HostTable(call.this)[e] = Tail(PreTable(call.this)[e])
           /\ HostTable(call.this)[e][1] # HostTable(call.this)[e][2]

----------------------------------------------------------------------------
(* C19: keys of the handler table *)

HasDot(s) == \E k \in 1..Len(s) : s[k] = "."

\* C19: no key of a handler table contains a dot; trigger of a name with a dot
\* finds no sequence and invokes no handler; trigger("a") takes the sequence of
\* "a" and invokes its records, with a namespace or without, in sequence order,
\* all of them by the time the dispatch has ended.
C19_KeysHaveNoDot ==
    /\ \A o \in Objects : \A k \in DOMAIN eventHandlers[o] : ~HasDot(k)
    /\ (call.op = "trigger" /\ HasDot(call.events.chars)) =>
           (stack = <<>> /\ calls = <<>> /\ result = Undefined)
    /\ (call.op = "trigger" /\ ~HasDot(call.events.chars)) =>
           LET list == Lst(PreTable(call.this), call.events.chars)
           IN /\ Len(calls) <= Len(list)
              /\ \A n \in 1..Len(calls) : calls[n].rec = list[n]
              /\ Dispatched => Len(calls) = Len(list)

----------------------------------------------------------------------------
(* C13: round trip of on and off *)

\* C13: from a host with no registration, on() calls followed by off() calls
\* with the same arguments in the inverse order leave the handler tables with
\* no key, whatever the calls were.
C13_RoundTrip ==
    undo = <<>> => \A o \in Objects : DOMAIN eventHandlers[o] = {}

\* the off() that ends a round trip took the last records out of a table that
\* held records under two keys
C13_Witness ==
    /\ Called("off") /\ undo = <<>>
    /\ Cardinality(DOMAIN PreTable(call.this)) = 2
    /\ hasEventHandlers[call.this]
    /\ DOMAIN HostTable(call.this) = {}

----------------------------------------------------------------------------
(* C14: instances of a prototype that has the capability *)

\* C14: with the capability installed on the prototype only, a handler table
\* is an own property of the instance it was made for and the prototype has
\* none; on, off and trigger called on one instance leave the table of the
\* other as it was; a table holds only records registered through its
\* instance, and trigger on an instance invokes only such records.
C14_InstanceIsolation ==
    /\ ~hasEventHandlers[Prototype]
    /\ \A o \in Instances : HandlersOwner(hasEventHandlers, o) \in {o, NoObject}
    /\ call.op \in {"on", "off", "trigger"} =>
           \A o \in Instances \ {call.this} :
               /\ hasEventHandlers[o] = pre.hasEventHandlers[o]
               /\ eventHandlers[o] = pre.eventHandlers[o]
    /\ \A o \in Instances : \A e \in DOMAIN eventHandlers[o] :
           \A n \in 1..Len(eventHandlers[o][e]) :
               eventHandlers[o][e][n].handler = ListenerOf(o)
    /\ call.op = "trigger" =>
           /\ Len(calls) <= Len(Lst(HostTable(call.this), call.events.chars))
           /\ \A n \in 1..Len(calls) :
                  /\ calls[n].rec = HostTable(call.this)[call.events.chars][n]
                  /\ calls[n].rec.handler = ListenerOf(call.this)

\* trigger("a") on B has ended after invoking B's two records while A holds
\* records of "a" too
C14_Witness ==
    /\ Dispatched /\ call.this = "B"
    /\ Len(calls) = 2
    /\ Lst(eventHandlers["B"], <<"a">>) # <<>>
    /\ Lst(eventHandlers["A"], <<"a">>) # <<>>
    /\ Lst(eventHandlers["A"], <<"a">>) # Lst(eventHandlers["B"], <<"a">>)

----------------------------------------------------------------------------
(* C15, C17, C18: handlers that call on, off and trigger *)

\* C15: in every state, between any two steps of dispatches whose handlers
\* call on, off and trigger on the host, every key of a handler table maps to
\* a sequence that is not empty and every record under key e has event name e.
C15_TableInvariant ==
    \A o \in Objects :
        /\ ~hasEventHandlers[o] => DOMAIN eventHandlers[o] = {}
        /\ \A e \in DOMAIN eventHandlers[o] :
               /\ Len(eventHandlers[o][e]) > 0
               /\ \A n \in 1..Len(eventHandlers[o][e]) :
                      eventHandlers[o][e][n].eventName = e

\* a handler run by a trigger("a") that a handler started has emptied the
\* sequence of "a", which both activations were walking, and "a" has been
\* registered again
C15_Witness ==
    /\ Len(stack) = 2
    /\ stack[1].detached /\ stack[2].detached
    /\ stack[1].eventName = <<"a">> /\ stack[2].eventName = <<"a">>
    /\ <<"a">> \in DOMAIN eventHandlers[stack[1].owner]

\* how many times seq holds the record rec
Occurrences(seq, rec) == Cardinality({n \in 1..Len(seq) : seq[n] = rec})

\* the records the handlers of the last call were invoked for, in order
Invoked == [n \in 1..Len(calls) |-> calls[n].rec]

\* C17: when handlers call off() during trigger(e) and trigger returns, every
\* record of e that was registered when trigger was entered and is still
\* registered has been invoked, and no record has been invoked more often than
\* it was registered.
C17_RemovalDoesNotStarve ==
    (Dispatched /\ result = Undefined) =>
        LET before == Lst(PreTable(call.this), call.events.chars)
            after == Lst(HostTable(call.this), call.events.chars)
        IN \A n \in 1..Len(before) :
               /\ Occurrences(Invoked, before[n]) >= Occurrences(after, before[n])
               /\ Occurrences(Invoked, before[n]) <= Occurrences(before, before[n])

\* the entries the outermost trigger() has still to visit
Remaining ==
    IF stack = <<>> THEN 0 ELSE Len(handlerListOf(stack[1])) - stack[1].i

\* C18: trigger(e) comes to its end when handlers call on() and off() for e:
\* no step of a dispatch adds to the entries the loop has still to visit, and
\* every handler that returns or throws moves the loop one entry on, so the
\* loop ends after as many invocations as it had entries to visit.
C18_DispatchCompletes ==
    [][(stack # <<>> /\ stack' # <<>>) =>
           /\ Remaining' <= Remaining
           /\ (stack[1].inHandler /\ ~stack'[1].inHandler) => Remaining' < Remaining]_vars

====
